---- MODULE Spec2Model ----
(***************************************************************************)
(* Model of src/octoAICloud.py: the OctoAiCloudLLM adapter.                *)
(*                                                                         *)
(* Encoding of Python values:                                              *)
(*   - Optional[T] is a sequence of length <= 1: None is <<>>, a present   *)
(*     value x is <<x>>;                                                   *)
(*   - a generated text or a stop marker (a str the code scans) is a       *)
(*     sequence of one-character strings; other strs are TLA+ strings;     *)
(*   - a dict with free keys (model_kwargs) is a set of <<key, value>>     *)
(*     pairs; the parsed JSON object is a record of Optional fields, a key *)
(*     being in the object iff its field is not None.                      *)
(***************************************************************************)
EXTENDS Integers, Sequences, FiniteSets, TLC

VARIABLES
    environ,   \* os.environ, restricted to the two variables the code reads
    kwargs,    \* the keyword arguments given to OctoAiCloudLLM(...)
    obj,       \* Optional: the constructed OctoAiCloudLLM instance (its fields)
    raised,    \* Optional: the error construction ended with
    ident,     \* Optional: the mapping the last _identifying_params read returned
    calls      \* per caller: the _call invocation in progress

vars == <<environ, kwargs, obj, raised, ident, calls>>

None == <<>>

Some(x) == <<x>>

\* Python truthiness of an Optional[str]: present and not the empty string.
Truthy(o) == o # None /\ o[1] # ""

(***************************************************************************)
(* Bounds and input domains.                                               *)
(***************************************************************************)
MaxCallers == 2

Callers == 1..MaxCallers

Prompts == {"p1", "p2"}

\* Generated texts the endpoint may answer with: "ab" and ".ba".
Texts == { <<"a", "b">>, <<".", "b", "a">> }

\* Stop arguments: None, [], ["b", "a"], ["."].
Stops ==
    { None,
      Some(<<>>),
      Some(<< <<"b">>, <<"a">> >>),
      Some(<< <<".">> >>) }

\* Parsed response bodies: {}, {"error": ..., "generated_text": "ab"} and
\* {"generated_text": t}.
JsonObjects ==
    { [error |-> None, generated_text |-> None],
      [error |-> Some("rate limited"), generated_text |-> Some(<<"a", "b">>)] }
    \cup
    { [error |-> None, generated_text |-> Some(t)] : t \in Texts }

\* What requests.post can do: raise a RequestException, or return a response
\* with some status whose body is a JSON object or is not JSON at all.
Responses ==
    { [exc |-> Some("ConnectionError"), status |-> 0, is_json |-> FALSE,
       json |-> [error |-> None, generated_text |-> None]],
      [exc |-> None, status |-> 502, is_json |-> FALSE,
       json |-> [error |-> None, generated_text |-> None]],
      [exc |-> None, status |-> 500, is_json |-> TRUE,
       json |-> [error |-> Some("rate limited"), generated_text |-> None]] }
    \cup
    { [exc |-> None, status |-> 200, is_json |-> TRUE, json |-> j] :
        j \in JsonObjects }

NoResponse ==
    [exc |-> None, status |-> 0, is_json |-> FALSE,
     json |-> [error |-> None, generated_text |-> None]]

Environs ==
    [ OCTOAI_API_TOKEN : {None, Some(""), Some("env-token")},
      ENDPOINT_URL : {None, Some(""), Some("https://env")} ]

Kwargs ==
    [ endpoint_url : {Some(""), Some("https://explicit")},
      octoai_api_token : {None, Some(""), Some("explicit-token")},
      model_kwargs : {None, Some({}), Some({<<"temperature", "1">>})},
      task : {None, Some("text-generation")} ]

(***************************************************************************)
(* Construction: the root validator.                                       *)
(***************************************************************************)

\* langchain.utils.get_from_dict_or_env: the value under `key` if it is there
\* and truthy, else the environment variable if it is set and truthy, else a
\* ValueError (ok = FALSE).
get_from_dict_or_env(data, key, env_key, env) ==
    IF Truthy(data[key])
    THEN [ok |-> TRUE, value |-> data[key]]
    ELSE IF Truthy(env[env_key])
         THEN [ok |-> TRUE, value |-> env[env_key]]
         ELSE [ok |-> FALSE, value |-> None]

\* Mutant: only the token is resolved; endpoint_url is left as it was given.
validate_environment_token_only(values, env) ==
    LET tok == get_from_dict_or_env(values, "octoai_api_token", "OCTOAI_API_TOKEN", env)
    IN  IF ~tok.ok
        THEN [ok |-> FALSE, error |-> Some("octoai_api_token"), values |-> values]
        ELSE [ok |-> TRUE, error |-> None,
              values |-> [values EXCEPT !.octoai_api_token = tok.value]]

\* Mutant: the lookups are given the environment's values as the explicit
\* ones, so a variable that is set wins over the value passed in.
validate_environment_env_first(values, env) ==
    LET fromenv == [values EXCEPT !.octoai_api_token = env.OCTOAI_API_TOKEN,
                                  !.endpoint_url = env.ENDPOINT_URL]
        asenv == [OCTOAI_API_TOKEN |-> values.octoai_api_token,
                  ENDPOINT_URL |-> values.endpoint_url]
        tok == get_from_dict_or_env(fromenv, "octoai_api_token", "OCTOAI_API_TOKEN", asenv)
        url == get_from_dict_or_env(fromenv, "endpoint_url", "ENDPOINT_URL", asenv)
    IN  IF ~tok.ok
        THEN [ok |-> FALSE, error |-> Some("octoai_api_token"), values |-> values]
        ELSE IF ~url.ok
        THEN [ok |-> FALSE, error |-> Some("endpoint_url"), values |-> values]
        ELSE [ok |-> TRUE, error |-> None,
              values |-> [values EXCEPT !.octoai_api_token = tok.value,
                                        !.endpoint_url = url.value]]

\* The token is resolved first, then the endpoint; the first lookup that
\* raises ends the validator.
validate_environment(values, env) ==
    LET tok == get_from_dict_or_env(values, "octoai_api_token", "OCTOAI_API_TOKEN", env)
        url == get_from_dict_or_env(values, "endpoint_url", "ENDPOINT_URL", env)
    IN  IF ~tok.ok
        THEN [ok |-> FALSE, error |-> Some("octoai_api_token"), values |-> values]
        ELSE IF ~url.ok
        THEN [ok |-> FALSE, error |-> Some("endpoint_url"), values |-> values]
        ELSE [ok |-> TRUE, error |-> None,
              values |-> [values EXCEPT !.octoai_api_token = tok.value,
                                        !.endpoint_url = url.value]]

\* Mutant: the token is returned with the identifying parameters.
_identifying_params_with_token(self) ==
    [ endpoint_url |-> self.endpoint_url,
      task |-> self.task,
      model_kwargs |-> IF self.model_kwargs = None \/ self.model_kwargs = Some({})
                       THEN {} ELSE self.model_kwargs[1],
      octoai_api_token |-> self.octoai_api_token ]

\* `self.model_kwargs or {}`: None and the empty dict both give {}.
_identifying_params(self) ==
    [ endpoint_url |-> self.endpoint_url,
      task |-> self.task,
      model_kwargs |-> IF self.model_kwargs = None \/ self.model_kwargs = Some({})
                       THEN {} ELSE self.model_kwargs[1] ]

(***************************************************************************)
(* Stop tokens: langchain.llms.utils.enforce_stop_tokens(text, stop) is    *)
(*     re.split("|".join(stop), text)[0]                                   *)
(* The markers are joined into one regular expression, unescaped, and the  *)
(* text is cut at the leftmost match of that expression.                   *)
(***************************************************************************)
RECURSIVE Join(_)
\* "|".join(stop): the markers with a "|" between neighbours; "" for [].
Join(stop) ==
    IF Len(stop) = 0 THEN <<>>
    ELSE IF Len(stop) = 1 THEN stop[1]
    ELSE stop[1] \o <<"|">> \o Join(Tail(stop))

RECURSIVE Alternatives(_)
\* How `re` reads the pattern: the alternatives between its "|" characters.
\* The empty pattern is one empty alternative.
Alternatives(pattern) ==
    LET bars == {i \in 1..Len(pattern) : pattern[i] = "|"}
    IN  IF bars = {} THEN <<pattern>>
        ELSE LET b == CHOOSE i \in bars : \A j \in bars : i <= j
             IN  <<SubSeq(pattern, 1, b - 1)>>
                 \o Alternatives(SubSeq(pattern, b + 1, Len(pattern)))

\* Whether alternative `alt` matches `text` at offset i (0-based): a "." of
\* the pattern matches any character, every other character only itself.
MatchAt(alt, text, i) ==
    /\ i + Len(alt) <= Len(text)
    /\ \A k \in 1..Len(alt) : alt[k] = "." \/ alt[k] = text[i + k]

\* re.split(pattern, text)[0]: the text before the leftmost match (an empty
\* match counts, Python 3.7 on), the whole text when nothing matches.
re_split_first(pattern, text) ==
    LET alts == Alternatives(pattern)
        hits == {i \in 0..Len(text) :
                    \E a \in 1..Len(alts) : MatchAt(alts[a], text, i)}
    IN  IF hits = {} THEN text
        ELSE SubSeq(text, 1, CHOOSE i \in hits : \A j \in hits : i <= j)

enforce_stop_tokens(text, stop) == re_split_first(Join(stop), text)

(***************************************************************************)
(* _call: the request it builds and what it does with the answer.          *)
(***************************************************************************)
IdleCall ==
    [ pc |-> "idle", prompt |-> "", stop |-> None, request |-> None,
      posts |-> 0, parsed |-> 0, response |-> NoResponse,
      returned |-> None, exc |-> None ]

\* Lines 68-69: {"prompt": prompt, "parameters": self.model_kwargs or {}}.
parameter_payload(self, prompt) ==
    [ prompt |-> prompt,
      parameters |-> IF self.model_kwargs = None \/ self.model_kwargs = Some({})
                     THEN {} ELSE self.model_kwargs[1] ]

\* Lines 72-75.
headers(self) ==
    [ Authorization |-> <<"Bearer ", self.octoai_api_token[1]>>,
      Content_Type |-> "application/json" ]

\* Lines 68-81, up to the point where requests.post is waiting for the
\* endpoint: one POST has been issued.
_call_post(self, prompt, stop) ==
    [ IdleCall EXCEPT
        !.pc = "waiting",
        !.prompt = prompt,
        !.stop = stop,
        !.request = Some([ url |-> self.endpoint_url[1],
                           headers |-> headers(self),
                           json |-> parameter_payload(self, prompt) ]),
        !.posts = 1 ]

\* Lines 82-97, from the moment requests.post returns or raises.
\*   82-83  a RequestException becomes ValueError("Error raised by inference
\*          endpoint: ..."); the response is never read;
\*   86     response.json(): a body that is not JSON raises there;
\*   87-90  an "error" key becomes ValueError("Error raised by inference
\*          API: ...");
\*   93     generated_text["generated_text"]: a missing key is a KeyError;
\*   94-95  stop is not None: enforce_stop_tokens(text, stop);
\*   97     return text.
handle_response(call, response) ==
    IF response.exc # None
    THEN [call EXCEPT !.pc = "done", !.response = response,
              !.exc = Some(<<"ValueError", "Error raised by inference endpoint: ",
                             response.exc[1]>>)]
    ELSE IF ~response.is_json
    THEN [call EXCEPT !.pc = "done", !.response = response, !.parsed = 1,
              !.exc = Some(<<"JSONDecodeError", "", "">>)]
    ELSE IF response.json.error # None
    THEN [call EXCEPT !.pc = "done", !.response = response, !.parsed = 1,
              !.exc = Some(<<"ValueError", "Error raised by inference API: ",
                             response.json.error[1]>>)]
    ELSE IF response.json.generated_text = None
    THEN [call EXCEPT !.pc = "done", !.response = response, !.parsed = 1,
              !.exc = Some(<<"KeyError", "generated_text", "">>)]
    ELSE [call EXCEPT !.pc = "done", !.response = response, !.parsed = 1,
              !.returned =
                  IF call.stop # None
                  THEN Some(enforce_stop_tokens(response.json.generated_text[1],
                                                call.stop[1]))
                  ELSE response.json.generated_text]

\* Mutant: a failed POST is sent again once before the error is raised.
_call_finish_retry(call, response) ==
    IF response.exc # None /\ call.posts < 2
    THEN [call EXCEPT !.posts = call.posts + 1]
    ELSE handle_response(call, response)

\* Mutant: the generated text is extracted before the error key is looked at.
_call_finish_text_first(call, response) ==
    IF response.exc = None /\ response.is_json /\ response.json.generated_text # None
    THEN [handle_response(call, [response EXCEPT !.json.error = None])
             EXCEPT !.response = response]
    ELSE handle_response(call, response)

\* Mutant: a missing generated_text is read as the empty string.
_call_finish_default_text(call, response) ==
    IF response.exc = None /\ response.is_json /\ response.json.generated_text = None
    THEN [handle_response(call, [response EXCEPT !.json.generated_text = Some(<<>>)])
             EXCEPT !.response = response]
    ELSE handle_response(call, response)

\* The rest of _call once requests.post has returned or raised.
_call_finish(call, response) == handle_response(call, response)

(***************************************************************************)
(* Actions.                                                                *)
(***************************************************************************)

\* OctoAiCloudLLM(**kwargs): the root validator runs over the field values
\* (defaults filled in); the instance exists only if it does not raise.
Construct ==
    /\ obj = None
    /\ raised = None
    /\ LET r == validate_environment(kwargs, environ)
       IN  IF r.ok
           THEN obj' = Some(r.values) /\ raised' = None
           ELSE obj' = None /\ raised' = Some(<<"ValidationError", r.error[1]>>)
    /\ UNCHANGED <<environ, kwargs, ident, calls>>

\* A read of the _identifying_params property.
Identify ==
    /\ obj # None
    /\ ident' = Some(_identifying_params(obj[1]))
    /\ UNCHANGED <<environ, kwargs, obj, raised, calls>>

\* Mutant: the default for model_kwargs is stored on the instance.
CallSend_store_default(c) ==
    /\ obj # None
    /\ calls[c].pc = "idle"
    /\ \E prompt \in Prompts, stop \in Stops :
          calls' = [calls EXCEPT ![c] = _call_post(obj[1], prompt, stop)]
    /\ obj' = Some([obj[1] EXCEPT !.model_kwargs =
                        IF obj[1].model_kwargs = None THEN Some({})
                        ELSE obj[1].model_kwargs])
    /\ UNCHANGED <<environ, kwargs, raised, ident>>

\* Caller c enters _call(prompt, stop) and blocks in requests.post.
CallSend(c) ==
    /\ obj # None
    /\ calls[c].pc = "idle"
    /\ \E prompt \in Prompts, stop \in Stops :
          calls' = [calls EXCEPT ![c] = _call_post(obj[1], prompt, stop)]
    /\ UNCHANGED <<environ, kwargs, obj, raised, ident>>

\* Mutant: the stop list is kept in one place shared by all callers, so a
\* call that another caller started meanwhile is cut with that caller's list.
CallReceive_shared_stop(c) ==
    /\ calls[c].pc = "waiting"
    /\ \E response \in Responses :
          LET others == {d \in Callers : d # c /\ calls[d].pc = "waiting"}
              shared == IF others = {} THEN calls[c].stop
                        ELSE calls[CHOOSE d \in others : TRUE].stop
              out == _call_finish([calls[c] EXCEPT !.stop = shared], response)
          IN  calls' = [calls EXCEPT ![c] = [out EXCEPT !.stop = calls[c].stop]]
    /\ UNCHANGED <<environ, kwargs, obj, raised, ident>>

\* requests.post of caller c returns or raises, and _call runs to its end.
CallReceive(c) ==
    /\ calls[c].pc = "waiting"
    /\ \E response \in Responses :
          calls' = [calls EXCEPT ![c] = _call_finish(calls[c], response)]
    /\ UNCHANGED <<environ, kwargs, obj, raised, ident>>

\* The caller has taken the result (or the exception); it may call again.
CallReturn(c) ==
    /\ calls[c].pc = "done"
    /\ calls' = [calls EXCEPT ![c] = IdleCall]
    /\ UNCHANGED <<environ, kwargs, obj, raised, ident>>

(***************************************************************************)
(* Specifications.                                                         *)
(***************************************************************************)

\* Construction from every combination of explicit values and environment.
InitConstruct ==
    /\ environ \in Environs
    /\ kwargs \in Kwargs
    /\ obj = None
    /\ raised = None
    /\ ident = None
    /\ calls = [c \in Callers |-> IdleCall]

NextConstruct == Construct \/ Identify

SpecConstruct == InitConstruct /\ [][NextConstruct]_vars

\* Configurations the calls are run under: everything taken from the
\* environment, or everything given explicitly.
CallKwargs ==
    { [endpoint_url |-> Some(""), octoai_api_token |-> None,
       model_kwargs |-> None, task |-> None],
      [endpoint_url |-> Some("https://explicit"),
       octoai_api_token |-> Some("explicit-token"),
       model_kwargs |-> Some({<<"temperature", "1">>}),
       task |-> Some("text-generation")] }

CallEnviron ==
    [OCTOAI_API_TOKEN |-> Some("env-token"), ENDPOINT_URL |-> Some("https://env")]

\* The state after a successful construction.
Init ==
    /\ environ = CallEnviron
    /\ kwargs \in CallKwargs
    /\ validate_environment(kwargs, environ).ok
    /\ obj = Some(validate_environment(kwargs, environ).values)
    /\ raised = None
    /\ ident = None
    /\ calls = [c \in Callers |-> IdleCall]

Next ==
    \/ Identify
    \/ \E c \in Callers : CallSend(c)
    \/ \E c \in Callers : CallReceive(c)
    \/ \E c \in Callers : CallReturn(c)

Spec == Init /\ [][Next]_vars

(***************************************************************************)
(* The truncation the specification describes, for comparison: each marker *)
(* is looked up literally (str.find), and the text is cut at the least     *)
(* index found.                                                            *)
(***************************************************************************)

\* The 0-based indices at which `marker` occurs in `text`, literally.
Occurrences(text, marker) ==
    {i \in 0..Len(text) :
        /\ i + Len(marker) <= Len(text)
        /\ SubSeq(text, i + 1, i + Len(marker)) = marker}

\* The first-occurrence indices of the markers that occur in `text`.
FirstIndices(text, stop) ==
    {i \in 0..Len(text) :
        \E k \in 1..Len(stop) :
            /\ i \in Occurrences(text, stop[k])
            /\ \A j \in Occurrences(text, stop[k]) : i <= j}

LiteralTruncation(text, stop) ==
    IF FirstIndices(text, stop) = {} THEN text
    ELSE SubSeq(text, 1, CHOOSE i \in FirstIndices(text, stop) :
                             \A j \in FirstIndices(text, stop) : i <= j)

(***************************************************************************)
(* Properties.                                                             *)
(***************************************************************************)

\* Caller c's call is over and the endpoint answered with a JSON object.
DoneWithObject(c) ==
    /\ calls[c].pc = "done"
    /\ calls[c].response.exc = None
    /\ calls[c].response.is_json

\* Caller c's call is over and the answer held generated_text and no error.
DoneWithText(c) ==
    /\ DoneWithObject(c)
    /\ calls[c].response.json.error = None
    /\ calls[c].response.json.generated_text # None

\* C1: with a non-empty list of stop markers, a successful call returns the
\* generated text cut just before the least first-occurrence index of the
\* markers that occur in it, and the whole text when none occurs.
C1_TruncatesAtEarliestMarker ==
    \A c \in Callers :
        (DoneWithText(c) /\ calls[c].stop # None /\ calls[c].stop # Some(<<>>))
        => calls[c].returned =
               Some(LiteralTruncation(calls[c].response.json.generated_text[1],
                                      calls[c].stop[1]))

\* C2: an answer that holds an `error` key ends the call with the inference
\* error carrying that value, and nothing is returned, whatever the status,
\* the stop list, or a generated_text beside the error.
C2_ErrorKeyRaises ==
    \A c \in Callers :
        (DoneWithObject(c) /\ calls[c].response.json.error # None)
        => /\ calls[c].exc = Some(<<"ValueError", "Error raised by inference API: ",
                                    calls[c].response.json.error[1]>>)
           /\ calls[c].returned = None

C2_Witness ==
    \E c \in Callers :
        /\ DoneWithObject(c)
        /\ calls[c].response.json.error # None
        /\ calls[c].response.json.generated_text # None
        /\ calls[c].stop # None
        /\ calls[c].exc # None

\* C3: a call issues exactly one POST, to endpoint_url; when the POST raises,
\* the call ends with the transport error wrapping the failure, the response
\* is never parsed and nothing is returned.
C3_SinglePostNoRetry ==
    \A c \in Callers :
        /\ calls[c].pc = "idle" => calls[c].posts = 0
        /\ calls[c].pc \in {"waiting", "done"} =>
              /\ calls[c].posts = 1
              /\ calls[c].request[1].url = obj[1].endpoint_url[1]
        /\ (calls[c].pc = "done" /\ calls[c].response.exc # None) =>
              /\ calls[c].exc = Some(<<"ValueError",
                                       "Error raised by inference endpoint: ",
                                       calls[c].response.exc[1]>>)
              /\ calls[c].parsed = 0
              /\ calls[c].returned = None

C3_Witness ==
    \E c \in Callers :
        /\ calls[c].pc = "done"
        /\ calls[c].response.exc # None
        /\ calls[c].exc # None
        /\ calls[c].posts = 1

\* C4: an adapter that exists has a non-empty endpoint_url and a non-empty
\* token; when either is absent or empty both in the explicit values and in
\* its environment variable, construction raises and no adapter exists.
Missing(key, env_key) == ~Truthy(kwargs[key]) /\ ~Truthy(environ[env_key])

C4_RequiredFieldsNonEmpty ==
    /\ obj # None =>
          /\ Truthy(obj[1].endpoint_url)
          /\ Truthy(obj[1].octoai_api_token)
    /\ ( /\ obj # None \/ raised # None
         /\ \/ Missing("endpoint_url", "ENDPOINT_URL")
            \/ Missing("octoai_api_token", "OCTOAI_API_TOKEN") )
       => (obj = None /\ raised # None)

C4_Witness ==
    /\ raised # None
    /\ obj = None
    /\ Missing("endpoint_url", "ENDPOINT_URL")
    /\ ~Missing("octoai_api_token", "OCTOAI_API_TOKEN")
    /\ environ.ENDPOINT_URL = Some("")

\* C5: with endpoint_url and the token both given explicitly (non-empty),
\* construction never raises, whatever the environment holds, and each
\* resolved field is the explicit value; the environment's value is taken
\* only for a field whose explicit value is missing.
C5_ExplicitValuesWin ==
    /\ (Truthy(kwargs.endpoint_url) /\ Truthy(kwargs.octoai_api_token))
       => raised = None
    /\ obj # None =>
          /\ obj[1].endpoint_url =
                IF Truthy(kwargs.endpoint_url) THEN kwargs.endpoint_url
                ELSE environ.ENDPOINT_URL
          /\ obj[1].octoai_api_token =
                IF Truthy(kwargs.octoai_api_token) THEN kwargs.octoai_api_token
                ELSE environ.OCTOAI_API_TOKEN

C5_Witness ==
    /\ obj # None
    /\ Truthy(kwargs.endpoint_url)
    /\ Truthy(kwargs.octoai_api_token)
    /\ Truthy(environ.ENDPOINT_URL)
    /\ Truthy(environ.OCTOAI_API_TOKEN)
    /\ obj[1].endpoint_url = kwargs.endpoint_url
    /\ obj[1].octoai_api_token = kwargs.octoai_api_token

\* C6: the identifying parameters have exactly the keys endpoint_url, task
\* and model_kwargs, model_kwargs being the empty mapping when none was
\* configured; the token is not among them, wherever it came from; and the
\* read leaves the adapter as construction made it.
C6_IdentifyOmitsToken ==
    ident # None =>
        /\ DOMAIN ident[1] = {"endpoint_url", "task", "model_kwargs"}
        /\ ident[1].endpoint_url = obj[1].endpoint_url
        /\ ident[1].task = obj[1].task
        /\ ident[1].model_kwargs =
              (IF obj[1].model_kwargs = None THEN {} ELSE obj[1].model_kwargs[1])
        /\ ident[1].endpoint_url # obj[1].octoai_api_token
        /\ ident[1].task # obj[1].octoai_api_token
        /\ obj = Some(validate_environment(kwargs, environ).values)

C6_Witness ==
    /\ ident # None
    /\ kwargs.octoai_api_token = None
    /\ obj[1].octoai_api_token = environ.OCTOAI_API_TOKEN
    /\ kwargs.model_kwargs = None
    /\ ident[1].model_kwargs = {}

\* C7: a successful call given the empty stop list returns what the same call
\* given stop = None returns, the generated text unchanged.
C7_EmptyStopLikeNone ==
    \A c \in Callers :
        (DoneWithText(c) /\ calls[c].stop = Some(<<>>))
        => calls[c].returned = calls[c].response.json.generated_text

\* C8: an answer with neither `error` nor `generated_text` ends the call with
\* the missing-key error and nothing is returned; every finished call has
\* either returned a string or raised, never both and never neither.
C8_MissingTextRaises ==
    \A c \in Callers :
        /\ ( /\ DoneWithObject(c)
             /\ calls[c].response.json.error = None
             /\ calls[c].response.json.generated_text = None )
           => /\ calls[c].exc = Some(<<"KeyError", "generated_text", "">>)
              /\ calls[c].returned = None
        /\ calls[c].pc = "done" =>
              (calls[c].returned = None) # (calls[c].exc = None)
        /\ calls[c].pc # "done" =>
              (calls[c].returned = None /\ calls[c].exc = None)

C8_Witness ==
    \E c \in Callers :
        /\ DoneWithObject(c)
        /\ calls[c].response.json.error = None
        /\ calls[c].response.json.generated_text = None
        /\ calls[c].stop # None
        /\ calls[c].exc # None

\* C9: whatever calls were made and however they ended, the adapter's fields
\* are the ones construction resolved.
C9_FieldsNeverChange ==
    obj = Some(validate_environment(kwargs, environ).values)

C9_Witness ==
    /\ ident # None
    /\ obj[1].model_kwargs = None
    /\ \E c, d \in Callers :
          /\ calls[c].pc = "done" /\ calls[c].returned # None
          /\ calls[d].pc = "done" /\ calls[d].exc # None

\* C10: each call sends the request built from its own prompt and the
\* adapter's fields, and ends as it would when run alone on its own prompt,
\* stop list and response, whatever the other callers are doing.
C10_CallsIndependent ==
    \A c \in Callers :
        /\ calls[c].pc # "idle" =>
              calls[c].request =
                  Some([ url |-> obj[1].endpoint_url[1],
                         headers |-> headers(obj[1]),
                         json |-> parameter_payload(obj[1], calls[c].prompt) ])
        /\ calls[c].pc = "waiting" =>
              calls[c] = _call_post(obj[1], calls[c].prompt, calls[c].stop)
        /\ calls[c].pc = "done" =>
              calls[c] = _call_finish(_call_post(obj[1], calls[c].prompt, calls[c].stop),
                                      calls[c].response)

C10_Witness ==
    \E c, d \in Callers :
        /\ c # d
        /\ calls[c].pc = "done" /\ calls[d].pc = "done"
        /\ calls[c].prompt # calls[d].prompt
        /\ calls[c].stop # calls[d].stop
        /\ calls[c].stop # None /\ calls[d].stop # None
        /\ calls[c].returned # None /\ calls[d].returned # None
        /\ calls[c].returned # calls[d].returned
        /\ calls[c].response = calls[d].response

====
